---- MODULE Spec2Model ----
(***************************************************************************)
(* Byte-level model of the copy-on-write B+Tree (BNode page codec, node    *)
(* algorithms, BTree.Insert / BTree.Delete) and of the in-memory page      *)
(* manager of the test harness C.                                          *)
(*                                                                         *)
(* A BNode is a Go byte slice: a length, a capacity and the bytes of the   *)
(* underlying array.  The array is created zeroed by make, so the model    *)
(* keeps only the prefix up to the last non-zero byte in data.             *)
(* A Go panic (failed assert, slice bounds, "bad node!") inside a node     *)
(* function is the value PanicNode; inside the tree it sets m.panic.       *)
(***************************************************************************)
EXTENDS Integers, Sequences, FiniteSets, TLC

HEADER == 4
BTREE_PAGE_SIZE == 4096
BTREE_MAX_KEY_SIZE == 1000
BTREE_MAX_VAL_SIZE == 3000
BNODE_NODE == 1
BNODE_LEAF == 2

\* ------------------------------------------------------------ integers ----
U16(x) == x % 65536

MinOf(S) == CHOOSE x \in S : \A y \in S : x <= y

\* evaluate v once and use it as x in F
Bind(v, F(_)) == F(v)

\* ------------------------------------------------------------- slices -----
\* make([]byte, n)
MakeNode(n) == [len |-> n, cap |-> n, data |-> <<>>]

\* BNode{} : the empty slice returned for "not found"
EmptyNode == [len |-> 0, cap |-> 0, data |-> <<>>]

\* the outcome of a node function that panicked
PanicNode == [len |-> 0, cap |-> 0, data |-> <<-1>>]

\* the last index in lo..hi of a non-zero byte of s, 0 when there is none
RECURSIVE LastNonZero(_, _, _)
LastNonZero(s, lo, hi) ==
  IF lo > hi THEN 0
  ELSE IF lo = hi THEN (IF s[lo] # 0 THEN lo ELSE 0)
  ELSE Bind(LastNonZero(s, ((lo + hi) \div 2) + 1, hi), LAMBDA r :
         IF r # 0 THEN r ELSE LastNonZero(s, lo, (lo + hi) \div 2))

Trim(s) ==
  IF Len(s) = 0 THEN s
  ELSE IF s[Len(s)] # 0 THEN s
  ELSE SubSeq(s, 1, LastNonZero(s, 1, Len(s)))

Zeros(n) == [i \in 1..n |-> 0]

\* the byte at 0-based position pos of the underlying array
ByteAt(node, pos) == IF pos < Len(node.data) THEN node.data[pos + 1] ELSE 0

\* the bytes [lo, hi) of the underlying array
Bytes(node, lo, hi) ==
  IF hi <= lo THEN <<>>
  ELSE IF hi <= Len(node.data) THEN SubSeq(node.data, lo + 1, hi)
  ELSE IF lo >= Len(node.data) THEN Zeros(hi - lo)
  ELSE SubSeq(node.data, lo + 1, Len(node.data)) \o Zeros(hi - Len(node.data))

\* store bytes bs at position pos of the underlying array (pos + Len(bs) <= cap)
PutBytes(node, pos, bs) ==
  IF Len(bs) = 0 THEN node
  ELSE [node EXCEPT !.data =
          Trim((IF pos <= Len(node.data) THEN SubSeq(node.data, 1, pos)
                ELSE node.data \o Zeros(pos - Len(node.data)))
               \o bs
               \o (IF pos + Len(bs) < Len(node.data)
                   THEN SubSeq(node.data, pos + Len(bs) + 1, Len(node.data))
                   ELSE <<>>))]

\* copy(node[pos:], bs) : needs pos <= len(node), copies what fits in the length
CopyOK(node, pos) == node # PanicNode /\ pos <= node.len

Copy(node, pos, bs) ==
  PutBytes(node, pos,
           SubSeq(bs, 1, IF Len(bs) <= node.len - pos THEN Len(bs) ELSE node.len - pos))

\* binary.LittleEndian.Uint16(node[pos:]) / PutUint16(node[pos:], v)
U16OK(node, pos) == node # PanicNode /\ pos + 2 <= node.len

GetU16(node, pos) == ByteAt(node, pos) + 256 * ByteAt(node, pos + 1)

LE16(v) == <<v % 256, (v \div 256) % 256>>

RECURSIVE LE64Bytes(_, _)
LE64Bytes(v, k) == IF k = 0 THEN <<>> ELSE <<v % 256>> \o LE64Bytes(v \div 256, k - 1)

RECURSIVE LE64Value(_)
LE64Value(bs) == IF Len(bs) = 0 THEN 0 ELSE bs[1] + 256 * LE64Value(Tail(bs))

\* node[pos:pos+8] with pos uint16 : low <= high <= cap
U64OK(node, pos) == node # PanicNode /\ U16(pos + 8) = pos + 8 /\ pos + 8 <= node.cap

\* ------------------------------------------------------------- header -----
btype(node) == GetU16(node, 0)

nkeys(node) == GetU16(node, 2)

setHeader(node, t, n) ==
  IF node = PanicNode THEN PanicNode
  ELSE IF node.len < 4 THEN PanicNode
  ELSE PutBytes(node, 0, LE16(U16(t)) \o LE16(U16(n)))

\* ----------------------------------------------------------- pointers -----
getPtrOK(node, idx) ==
  /\ node # PanicNode
  /\ node.len >= 4
  /\ idx < nkeys(node)
  /\ U64OK(node, U16(HEADER + 8 * idx))

getPtr(node, idx) ==
  LE64Value(Bytes(node, U16(HEADER + 8 * idx), U16(HEADER + 8 * idx) + 8))

setPtr(node, idx, val) ==
  IF ~getPtrOK(node, idx) THEN PanicNode
  ELSE PutBytes(node, U16(HEADER + 8 * idx), LE64Bytes(val, 8))

\* ------------------------------------------------------------ offsets -----
offsetPos(node, idx) == U16(HEADER + 8 * nkeys(node) + 2 * (idx - 1))

getOffsetOK(node, idx) ==
  /\ node # PanicNode
  /\ \/ idx = 0
     \/ /\ node.len >= 4
        /\ 1 <= idx /\ idx <= nkeys(node)
        /\ U16OK(node, offsetPos(node, idx))

getOffset(node, idx) == IF idx = 0 THEN 0 ELSE GetU16(node, offsetPos(node, idx))

setOffset(node, idx, offset) ==
  IF node = PanicNode THEN PanicNode
  ELSE IF node.len < 4 THEN PanicNode
  ELSE IF ~(1 <= idx /\ idx <= nkeys(node)) THEN PanicNode
  ELSE Bind(offsetPos(node, idx), LAMBDA pos :
         IF ~U16OK(node, pos) THEN PanicNode
         ELSE PutBytes(node, pos, LE16(U16(offset))))

\* ---------------------------------------------------------- key-values ----
kvPosOK(node, idx) ==
  /\ node # PanicNode
  /\ node.len >= 4
  /\ idx <= nkeys(node)
  /\ getOffsetOK(node, idx)

kvPos(node, idx) ==
  U16(HEADER + 8 * nkeys(node) + 2 * nkeys(node) + getOffset(node, idx))

\* node[pos+4:][:klen] of getKey for the entry at pos
keyAtOK(node, pos) ==
  /\ U16OK(node, pos)
  /\ U16(pos + 4) <= node.len
  /\ GetU16(node, pos) <= node.cap - U16(pos + 4)

keyAt(node, pos) == Bytes(node, U16(pos + 4), U16(pos + 4) + GetU16(node, pos))

getKeyOK(node, idx) ==
  /\ node # PanicNode
  /\ node.len >= 4
  /\ idx < nkeys(node)
  /\ kvPosOK(node, idx)
  /\ keyAtOK(node, kvPos(node, idx))

getKey(node, idx) == keyAt(node, kvPos(node, idx))

\* node[valStart : valStart+vlen] of getVal for the entry at pos
valSliceOK(node, valStart, vlen) ==
  valStart <= U16(valStart + vlen) /\ U16(valStart + vlen) <= node.cap

valAtOK(node, pos) ==
  /\ U16OK(node, pos)
  /\ U16(pos + 2) <= node.len
  /\ U16OK(node, U16(pos + 2))
  /\ valSliceOK(node, U16(pos + 4 + GetU16(node, pos)), GetU16(node, U16(pos + 2)))

valAt(node, pos) ==
  Bind(U16(pos + 4 + GetU16(node, pos)), LAMBDA valStart :
    Bytes(node, valStart, valStart + GetU16(node, U16(pos + 2))))

getValOK(node, idx) ==
  /\ node # PanicNode
  /\ node.len >= 4
  /\ idx < nkeys(node)
  /\ kvPosOK(node, idx)
  /\ valAtOK(node, kvPos(node, idx))

getVal(node, idx) == valAt(node, kvPos(node, idx))

nbytesOK(node) ==
  /\ node # PanicNode
  /\ node.len >= 4
  /\ kvPosOK(node, nkeys(node))

nbytes(node) == kvPos(node, nkeys(node))

\* ------------------------------------------------------ node algorithms ---
\* the first index in lo..hi where a and b differ, 0 when there is none
RECURSIVE FirstDiff(_, _, _, _)
FirstDiff(a, b, lo, hi) ==
  IF lo > hi THEN 0
  ELSE IF lo = hi THEN (IF a[lo] # b[lo] THEN lo ELSE 0)
  ELSE Bind(FirstDiff(a, b, lo, (lo + hi) \div 2), LAMBDA l :
         IF l # 0 THEN l ELSE FirstDiff(a, b, ((lo + hi) \div 2) + 1, hi))

\* bytes.Compare(a, b) : -1, 0, +1 in lexicographic byte order
Compare(a, b) ==
  Bind(FirstDiff(a, b, 1, IF Len(a) < Len(b) THEN Len(a) ELSE Len(b)), LAMBDA d :
    IF d # 0 THEN (IF a[d] < b[d] THEN -1 ELSE 1)
    ELSE IF Len(a) < Len(b) THEN -1
    ELSE IF Len(a) > Len(b) THEN 1
    ELSE 0)

\* the loop of nodeLookUpLE with cmp < 0 in place of cmp <= 0
RECURSIVE lookUpLoop_strict(_, _, _, _)
lookUpLoop_strict(node, key, i, found) ==
  IF i >= nkeys(node) THEN found
  ELSE IF ~getKeyOK(node, i) THEN -1
  ELSE Bind(Compare(getKey(node, i), key), LAMBDA cmp :
         IF cmp >= 0 THEN found
         ELSE lookUpLoop_strict(node, key, i + 1, i))

\* the loop of nodeLookUpLE from index i on; -1 when getKey panics
RECURSIVE lookUpLoop(_, _, _, _)
lookUpLoop(node, key, i, found) ==
  IF i >= nkeys(node) THEN found
  ELSE IF ~getKeyOK(node, i) THEN -1
  ELSE Bind(Compare(getKey(node, i), key), LAMBDA cmp :
         IF cmp = 0 THEN i
         ELSE IF cmp > 0 THEN found
         ELSE lookUpLoop(node, key, i + 1, i))

nodeLookUpLE(node, key) == lookUpLoop(node, key, 1, 0)

\* the KV block of nodeAppendKV written at pos, then the offset of the next key
appendKVAt(new, idx, pos, key, val) ==
  IF ~U16OK(new, pos) THEN PanicNode
  ELSE Bind(PutBytes(new, pos, LE16(U16(Len(key)))), LAMBDA n2 :
  IF ~U16OK(n2, U16(pos + 2)) THEN PanicNode
  ELSE Bind(PutBytes(n2, U16(pos + 2), LE16(U16(Len(val)))), LAMBDA n3 :
  IF ~CopyOK(n3, U16(pos + 4)) THEN PanicNode
  ELSE Bind(Copy(n3, U16(pos + 4), key), LAMBDA n4 :
  IF ~CopyOK(n4, U16(pos + 4 + U16(Len(key)))) THEN PanicNode
  ELSE Bind(Copy(n4, U16(pos + 4 + U16(Len(key))), val), LAMBDA n5 :
  IF ~getOffsetOK(n5, idx) THEN PanicNode
  ELSE setOffset(n5, U16(idx + 1),
                 U16(getOffset(n5, idx) + 4 + U16(Len(key) + Len(val))))))))

\* copy a KV into position
nodeAppendKV(new, idx, ptr, key, val) ==
  Bind(setPtr(new, idx, ptr), LAMBDA n1 :
    IF n1 = PanicNode THEN PanicNode
    ELSE IF ~kvPosOK(n1, idx) THEN PanicNode
    ELSE appendKVAt(n1, idx, kvPos(n1, idx), key, val))

\* step 1 of nodeAppendRange : the pointers
RECURSIVE copyPtrs(_, _, _, _, _, _)
copyPtrs(new, old, dstNew, srcOld, n, i) ==
  IF new = PanicNode THEN PanicNode
  ELSE IF i >= n THEN new
  ELSE IF ~getPtrOK(old, U16(srcOld + i)) THEN PanicNode
  ELSE copyPtrs(setPtr(new, U16(dstNew + i), getPtr(old, U16(srcOld + i))),
                old, dstNew, srcOld, n, i + 1)

\* step 2 of nodeAppendRange : the offsets
RECURSIVE copyOffsets(_, _, _, _, _, _, _, _)
copyOffsets(new, old, dstNew, srcOld, n, dstBegin, srcBegin, i) ==
  IF new = PanicNode THEN PanicNode
  ELSE IF i > n THEN new
  ELSE IF ~getOffsetOK(old, U16(srcOld + i)) THEN PanicNode
  ELSE copyOffsets(
         setOffset(new, U16(dstNew + i),
                   U16(dstBegin + U16(getOffset(old, U16(srcOld + i)) - srcBegin))),
         old, dstNew, srcOld, n, dstBegin, srcBegin, i + 1)

\* step 3 of nodeAppendRange : copy(new[new.kvPos(dstNew):], old[begin:end])
copyKVs(new, old, dstNew, begin, end) ==
  IF new = PanicNode THEN PanicNode
  ELSE IF ~kvPosOK(new, dstNew) THEN PanicNode
  ELSE IF ~CopyOK(new, kvPos(new, dstNew)) THEN PanicNode
  ELSE IF ~(begin <= end /\ end <= old.cap) THEN PanicNode
  ELSE Copy(new, kvPos(new, dstNew), Bytes(old, begin, end))

\* steps 2 and 3 of nodeAppendRange
copyOffsetsKVs(new, old, dstNew, srcOld, n) ==
  IF new = PanicNode THEN PanicNode
  ELSE IF ~getOffsetOK(new, dstNew) \/ ~getOffsetOK(old, srcOld) THEN PanicNode
  ELSE IF ~kvPosOK(old, srcOld) \/ ~kvPosOK(old, U16(srcOld + n)) THEN PanicNode
  ELSE copyKVs(copyOffsets(new, old, dstNew, srcOld, n,
                           getOffset(new, dstNew), getOffset(old, srcOld), 1),
               old, dstNew, kvPos(old, srcOld), kvPos(old, U16(srcOld + n)))

\* copy multiple kvs into the position from the old node
nodeAppendRange(new, old, dstNew, srcOld, n) ==
  IF new = PanicNode \/ old = PanicNode THEN PanicNode
  ELSE IF ~(U16(srcOld + n) <= nkeys(old)) THEN PanicNode
  ELSE IF ~(U16(dstNew + n) <= nkeys(new)) THEN PanicNode
  ELSE IF n = 0 THEN new
  ELSE copyOffsetsKVs(copyPtrs(new, old, dstNew, srcOld, n, 0), old, dstNew, srcOld, n)

\* add a new key to a leaf node (key and val are never written)
leafInsert(new, old, idx, key, val) ==
  nodeAppendRange(
    nodeAppendRange(setHeader(new, BNODE_LEAF, U16(nkeys(old) + 1)), old, 0, 0, idx),
    old, U16(idx + 1), idx, U16(nkeys(old) - idx))

\* remove a key from a leaf node
leafDelete(new, old, idx) ==
  nodeAppendRange(
    nodeAppendRange(setHeader(new, BNODE_LEAF, U16(nkeys(old) - 1)), old, 0, 0, idx),
    old, idx, U16(idx + 1), U16(nkeys(old) - U16(idx + 1)))

\* merge 2 nodes into 1
nodeMerge(new, left, right) ==
  nodeAppendRange(
    nodeAppendRange(setHeader(new, btype(left), U16(nkeys(left) + nkeys(right))),
                    left, 0, 0, nkeys(left)),
    right, nkeys(left), 0, nkeys(right))

\* the writes of setKey for the entry at pos
setKeyAt(node, pos, key) ==
  IF ~U16OK(node, pos) THEN PanicNode
  ELSE Bind(PutBytes(node, pos, LE16(U16(Len(key)))), LAMBDA n1 :
         IF ~CopyOK(n1, U16(pos + 4)) THEN PanicNode
         ELSE Copy(n1, U16(pos + 4), key))

setKey(node, idx, key) ==
  IF ~kvPosOK(node, idx) THEN PanicNode
  ELSE setKeyAt(node, kvPos(node, idx), key)

\* replace 2 adjacent links with 1
nodeReplace2Kid(new, old, idx, ptr, key) ==
  setKey(
    setPtr(
      nodeAppendRange(
        nodeAppendRange(setHeader(new, BNODE_NODE, U16(nkeys(old) - 1)), old, 0, 0, idx),
        old, idx, U16(idx + 2), U16(nkeys(old) - U16(idx + 2))),
      idx, ptr),
    idx, key)

\* ---------------------------------------------------------------- bounds --
MaxOps == 4
MaxPages == 2

PageIds == 1..MaxPages

\* the addresses of the buffers that become pages within one call
MaxAddrs == 8

Addrs == 1..MaxAddrs

\* ---------------------------------------------------------- page manager --
\* The machine m threaded through one call: the harness's pages map, the
\* tree's root, the counts of new and del calls, the panic flag, and the
\* addresses the Go allocator may hand out: avoid holds the addresses of the
\* buffers the call still references, nextp the address of the next make
\* that gets allocated as a page.  log is the sequence of the new and del
\* calls that returned, pmfail tells that an assert of get, new or del failed.
Panic(m) == [m EXCEPT !.panic = TRUE]

\* a failed assert inside tree.get, tree.new or tree.del
PanicPM(m) == [m EXCEPT !.panic = TRUE, !.pmfail = TRUE]

\* the result of a tree function: the machine and the node built
Res(m, node) == [m |-> m, node |-> node]

\* the result of a tree function that panicked
Fail(m) == [m |-> [m EXCEPT !.panic = TRUE], node |-> PanicNode]

\* the result of a tree function whose tree.get failed its assert
FailPM(m) == [m |-> PanicPM(m), node |-> PanicNode]

\* tree.get : assert(ok)
pmGetOK(m, ptr) == ~m.panic /\ ptr \in DOMAIN m.pages

pmGet(m, ptr) == m.pages[ptr]

\* the address of &node[0] : addr > 0 when node is the buffer of page addr
pmPtr(m, addr) == IF addr = 0 THEN m.nextp ELSE addr

\* pages[ptr] = node, and the next address make hands out
pmStore(m, node, ptr) ==
  [m EXCEPT !.pages = [q \in DOMAIN m.pages \cup {ptr} |->
                         IF q = ptr THEN node ELSE m.pages[q]],
            !.allocs = m.allocs + 1,
            !.avoid = m.avoid \cup {ptr},
            !.nextp = IF Addrs \ (m.avoid \cup {ptr}) = {} THEN 0
                      ELSE MinOf(Addrs \ (m.avoid \cup {ptr})),
            !.log = Append(m.log, <<"new", ptr>>)]

\* tree.new
pmNew(m, node, addr) ==
  IF m.panic THEN m
  ELSE IF ~nbytesOK(node) THEN Panic(m)
  ELSE IF ~(nbytes(node) <= BTREE_PAGE_SIZE) THEN PanicPM(m)
  ELSE IF node.len = 0 THEN Panic(m)
  ELSE IF pmPtr(m, addr) \in DOMAIN m.pages THEN PanicPM(m)
  ELSE pmStore(m, node, pmPtr(m, addr))

\* tree.del
pmDel(m, ptr) ==
  IF m.panic THEN m
  ELSE IF ptr \notin DOMAIN m.pages THEN PanicPM(m)
  ELSE [m EXCEPT !.pages = [q \in DOMAIN m.pages \ {ptr} |-> m.pages[q]],
                 !.frees = m.frees + 1,
                 !.log = Append(m.log, <<"del", ptr>>)]

\* ------------------------------------------------------------- splitting --
\* split a oversized node into 2 : not implemented, left and right stay as made
nodeSplit2(left, right, old) == <<left, right>>

\* the 3-way branch of nodeSplit3
split3Way(s2, right) ==
  IF ~(nbytes(s2[1]) <= BTREE_PAGE_SIZE) THEN <<PanicNode>>
  ELSE <<s2[1], s2[2], right>>

\* nodeSplit3 for a node over the page size
splitBig(left, right) ==
  IF nbytes(left) <= BTREE_PAGE_SIZE
  THEN <<[left EXCEPT !.len = BTREE_PAGE_SIZE], right>>
  ELSE split3Way(nodeSplit2(MakeNode(BTREE_PAGE_SIZE), MakeNode(BTREE_PAGE_SIZE), left),
                 right)

\* split a node if its too big, the results are 1-3 nodes (<<PanicNode>> on panic)
nodeSplit3(old) ==
  IF ~nbytesOK(old) THEN <<PanicNode>>
  ELSE IF nbytes(old) <= BTREE_PAGE_SIZE
  THEN IF old.cap < BTREE_PAGE_SIZE THEN <<PanicNode>>
       ELSE <<[old EXCEPT !.len = BTREE_PAGE_SIZE]>>
  ELSE splitBig(MakeNode(2 * BTREE_PAGE_SIZE), MakeNode(BTREE_PAGE_SIZE))

\* ---------------------------------------------------------------- insert --
\* nodeAppendKV(new, at, tree.new(kid), kid.getKey(0), nil) : result [m, node]
appendKid(m, new, at, kid) ==
  Bind(pmNew(m, kid, 0), LAMBDA m1 :
    IF m1.panic THEN Fail(m1)
    ELSE IF ~getKeyOK(kid, 0) THEN Fail(m1)
    ELSE Bind(nodeAppendKV(new, at, pmPtr(m, 0), getKey(kid, 0), <<>>), LAMBDA n1 :
           IF n1 = PanicNode THEN Fail(m1) ELSE Res(m1, n1)))

\* the loop over kids[i..] of nodeReplaceKidN and of the new root of BTree.Insert
RECURSIVE appendKids(_, _, _, _)
appendKids(r, idx, kids, i) ==
  IF r.m.panic THEN r
  ELSE IF i > Len(kids) THEN r
  ELSE appendKids(appendKid(r.m, r.node, U16(idx + (i - 1)), kids[i]), idx, kids, i + 1)

\* the second nodeAppendRange of nodeReplaceKidN
replaceKidNTail(r, old, idx, inc) ==
  IF r.m.panic THEN r
  ELSE Bind(nodeAppendRange(r.node, old, U16(idx + inc), U16(idx + 1),
                            U16(nkeys(old) - U16(idx + 1))), LAMBDA n3 :
         IF n3 = PanicNode THEN Fail(r.m) ELSE Res(r.m, n3))

\* replace a link with one or multiple links
nodeReplaceKidN(m, new, old, idx, kids) ==
  Bind(nodeAppendRange(setHeader(new, BNODE_NODE, U16(nkeys(old) + Len(kids) - 1)),
                       old, 0, 0, idx), LAMBDA n2 :
    IF n2 = PanicNode THEN Fail(m)
    ELSE replaceKidNTail(appendKids(Res(m, n2), idx, kids, 1), old, idx, Len(kids)))

RECURSIVE treeInsert(_, _, _, _)
RECURSIVE nodeInsert(_, _, _, _, _, _)

\* the leaf case of treeInsert
treeInsertLeaf(m, new, node, idx, key, val) ==
  IF ~getKeyOK(node, idx) THEN Fail(m)
  ELSE IF key = getKey(node, idx)
  THEN Res(m, new)                          \* leafUpdate is commented out
  ELSE Bind(leafInsert(new, node, U16(idx + 1), key, val), LAMBDA n1 :
         IF n1 = PanicNode THEN Fail(m) ELSE Res(m, n1))

\* insert a KV into a node, the result might be split : result [m, node]
treeInsert(m, node, key, val) ==
  Bind(nodeLookUpLE(node, key), LAMBDA idx :
    IF idx = -1 THEN Fail(m)
    ELSE IF btype(node) = BNODE_LEAF
    THEN treeInsertLeaf(m, MakeNode(2 * BTREE_PAGE_SIZE), node, idx, key, val)
    ELSE IF btype(node) = BNODE_NODE
    THEN nodeInsert(m, MakeNode(2 * BTREE_PAGE_SIZE), node, idx, key, val)
    ELSE Fail(m))                           \* panic("bad node!")

\* nodeInsert that writes the result of the recursion into the kid's page
nodeInsertKid_inPlace(r, new, node, idx, kptr) ==
  IF r.m.panic THEN r
  ELSE Res([r.m EXCEPT !.pages[kptr] = r.node], node)

\* nodeInsert after the recursive insertion : split, deallocate, replace
nodeInsertKid(r, new, node, idx, kptr) ==
  IF r.m.panic THEN r
  ELSE Bind(nodeSplit3(r.node), LAMBDA split :
         IF split[1] = PanicNode THEN Fail(r.m)
         ELSE Bind(pmDel(r.m, kptr), LAMBDA m1 :
                IF m1.panic THEN Fail(m1)
                ELSE nodeReplaceKidN(m1, new, node, idx, split)))

\* part of the treeInsert(): KV insertion to an internal node
nodeInsert(m, new, node, idx, key, val) ==
  IF ~getPtrOK(node, idx) THEN Fail(m)
  ELSE IF ~pmGetOK(m, getPtr(node, idx)) THEN FailPM(m)
  ELSE nodeInsertKid(treeInsert(m, pmGet(m, getPtr(node, idx)), key, val),
                     new, node, idx, getPtr(node, idx))

\* tree.root = tree.new(node)
setRoot(m, node, addr) ==
  Bind(pmNew(m, node, addr), LAMBDA m1 :
    IF m1.panic THEN m1
    ELSE [m1 EXCEPT !.root = pmPtr(m, addr), !.rootAt = Len(m1.log)])

\* tree.root = tree.new(r.node) for the result r of a tree function
setRootOf(r) == IF r.m.panic THEN r.m ELSE setRoot(r.m, r.node, 0)

\* BTree.Insert, empty tree : the first node, a dummy key and the KV
firstLeaf_noSentinel(key, val) ==
  nodeAppendKV(setHeader(MakeNode(BTREE_PAGE_SIZE), BNODE_LEAF, 1), 0, 0, key, val)

firstLeaf(key, val) ==
  nodeAppendKV(
    nodeAppendKV(setHeader(MakeNode(BTREE_PAGE_SIZE), BNODE_LEAF, 2), 0, 0, <<>>, <<>>),
    1, 0, key, val)

\* BTree.Insert, non-empty tree : the new root over the split result
installSplit(m, split) ==
  IF m.panic THEN m
  ELSE IF Len(split) > 1
  THEN setRootOf(appendKids(
         Res(m, setHeader(MakeNode(BTREE_PAGE_SIZE), BNODE_NODE, Len(split))),
         0, split, 1))
  ELSE setRoot(m, split[1], 0)

\* BTree.Insert, non-empty tree : free the old root, install the split result
insertInstall_noDel(m, split) == installSplit(m, split)

insertInstall(m, split) == installSplit(pmDel(m, m.root), split)

\* BTree.Insert after treeInsert
insertSplit(r) ==
  IF r.m.panic THEN r.m
  ELSE Bind(nodeSplit3(r.node), LAMBDA split :
         IF split[1] = PanicNode THEN Panic(r.m) ELSE insertInstall(r.m, split))

\* BTree.Insert : the machine after the call
Insert(m, key, val) ==
  IF m.root = 0
  THEN Bind(firstLeaf(key, val), LAMBDA r :
         IF r = PanicNode THEN Panic(m) ELSE setRoot(m, r, 0))
  ELSE IF ~pmGetOK(m, m.root) THEN PanicPM(m)
  ELSE insertSplit(treeInsert(m, pmGet(m, m.root), key, val))

\* ---------------------------------------------------------------- delete --
NoMerge == [dir |-> 0, sibling |-> EmptyNode, panic |-> FALSE, pm |-> FALSE]

MergeFail == [dir |-> 0, sibling |-> EmptyNode, panic |-> TRUE, pm |-> FALSE]

\* shouldMerge : tree.get failed its assert
MergeFailPM == [dir |-> 0, sibling |-> EmptyNode, panic |-> TRUE, pm |-> TRUE]

\* shouldMerge : the size check of the sibling taken in direction dir
mergeWith(sibling, updated, dir, otherwise) ==
  IF ~nbytesOK(sibling) THEN MergeFail
  ELSE IF U16(nbytes(sibling) + nbytes(updated) - HEADER) <= BTREE_PAGE_SIZE
  THEN [dir |-> dir, sibling |-> sibling, panic |-> FALSE, pm |-> FALSE]
  ELSE otherwise

\* shouldMerge : the sibling at slot at of node, taken in direction dir
mergeSibling(m, node, at, updated, dir, otherwise) ==
  IF ~getPtrOK(node, at) THEN MergeFail
  ELSE IF ~pmGetOK(m, getPtr(node, at)) THEN MergeFailPM
  ELSE mergeWith(pmGet(m, getPtr(node, at)), updated, dir, otherwise)

\* shouldMerge : the check of the right sibling
mergeRight(m, node, idx, updated) ==
  IF U16(idx + 1) < nkeys(node)
  THEN mergeSibling(m, node, U16(idx + 1), updated, 1, NoMerge)
  ELSE NoMerge

\* should the updated kid be merged with a sibling : [dir, sibling, panic]
shouldMerge_rightFirst(m, node, idx, updated) ==
  IF ~nbytesOK(updated) THEN MergeFail
  ELSE IF nbytes(updated) > BTREE_PAGE_SIZE \div 4 THEN NoMerge
  ELSE IF U16(idx + 1) < nkeys(node)
  THEN mergeSibling(m, node, U16(idx + 1), updated, 1,
                    IF idx > 0
                    THEN mergeSibling(m, node, U16(idx - 1), updated, -1, NoMerge)
                    ELSE NoMerge)
  ELSE IF idx > 0
  THEN mergeSibling(m, node, U16(idx - 1), updated, -1, NoMerge)
  ELSE NoMerge

shouldMerge_never(m, node, idx, updated) ==
  IF ~nbytesOK(updated) THEN MergeFail ELSE NoMerge

shouldMerge(m, node, idx, updated) ==
  IF ~nbytesOK(updated) THEN MergeFail
  ELSE IF nbytes(updated) > BTREE_PAGE_SIZE \div 4 THEN NoMerge
  ELSE IF idx > 0
  THEN mergeSibling(m, node, U16(idx - 1), updated, -1,
                    mergeRight(m, node, idx, updated))
  ELSE mergeRight(m, node, idx, updated)

RECURSIVE treeDelete(_, _, _)
RECURSIVE nodeDelete(_, _, _, _)

\* the leaf case of treeDelete
treeDeleteLeaf(m, new, node, idx, key) ==
  IF ~getKeyOK(node, idx) THEN Fail(m)
  ELSE IF key # getKey(node, idx) THEN Res(m, EmptyNode)     \* key not found
  ELSE Bind(leafDelete(new, node, idx), LAMBDA n1 :
         IF n1 = PanicNode THEN Fail(m) ELSE Res(m, n1))

\* delete a key from the tree : result [m, node], node = EmptyNode for not found
treeDelete(m, node, key) ==
  Bind(nodeLookUpLE(node, key), LAMBDA idx :
    IF idx = -1 THEN Fail(m)
    ELSE IF btype(node) = BNODE_LEAF
    THEN treeDeleteLeaf(m, MakeNode(2 * BTREE_PAGE_SIZE), node, idx, key)
    ELSE IF btype(node) = BNODE_NODE
    THEN nodeDelete(m, node, idx, key)
    ELSE Fail(m))                           \* panic("bad node!")

\* nodeReplace2Kid(new, node, at, tree.new(merged), merged.getKey(0))
replaceMerged(m, new, node, at, merged) ==
  Bind(pmNew(m, merged, 0), LAMBDA m2 :
    IF m2.panic THEN Fail(m2)
    ELSE IF ~getKeyOK(merged, 0) THEN Fail(m2)
    ELSE Bind(nodeReplace2Kid(new, node, at, pmPtr(m, 0), getKey(merged, 0)),
              LAMBDA n1 : IF n1 = PanicNode THEN Fail(m2) ELSE Res(m2, n1)))

\* the merge cases of nodeDelete : free the sibling at slot sib, collapse the
\* slots at, at+1 of node into merged
mergeKids(m, new, node, at, sib, merged) ==
  IF merged = PanicNode THEN Fail(m)
  ELSE IF ~getPtrOK(node, sib) THEN Fail(m)
  ELSE replaceMerged(pmDel(m, getPtr(node, sib)), new, node, at, merged)

\* the switch of nodeDelete on the merge direction
nodeDeleteMerge(m, new, node, idx, updated, sm) ==
  IF sm.panic THEN (IF sm.pm THEN FailPM(m) ELSE Fail(m))
  ELSE IF sm.dir < 0
  THEN mergeKids(m, new, node, U16(idx - 1), U16(idx - 1),
                 nodeMerge(MakeNode(BTREE_PAGE_SIZE), sm.sibling, updated))
  ELSE IF sm.dir > 0
  THEN mergeKids(m, new, node, idx, U16(idx + 1),
                 nodeMerge(MakeNode(BTREE_PAGE_SIZE), updated, sm.sibling))
  ELSE IF nkeys(updated) = 0
  THEN IF ~(nkeys(node) = 1 /\ idx = 0) THEN Fail(m)
       ELSE Res(m, setHeader(new, BNODE_NODE, 0))
  ELSE nodeReplaceKidN(m, new, node, idx, <<updated>>)

\* nodeDelete after the kid was deallocated
nodeDeleteKid(m, node, idx, updated) ==
  IF m.panic THEN Fail(m)
  ELSE nodeDeleteMerge(m, MakeNode(BTREE_PAGE_SIZE), node, idx, updated,
                       shouldMerge(m, node, idx, updated))

\* nodeDelete after the recursion into the kid
nodeDeleteUpdated(r, node, idx, kptr) ==
  IF r.m.panic THEN r
  ELSE IF r.node.len = 0 THEN Res(r.m, EmptyNode)          \* not found
  ELSE nodeDeleteKid(pmDel(r.m, kptr), node, idx, r.node)

\* delete a key from an internal node; part of the treeDelete()
nodeDelete(m, node, idx, key) ==
  IF ~getPtrOK(node, idx) THEN Fail(m)
  ELSE IF ~pmGetOK(m, getPtr(node, idx)) THEN FailPM(m)
  ELSE nodeDeleteUpdated(treeDelete(m, pmGet(m, getPtr(node, idx)), key),
                         node, idx, getPtr(node, idx))

\* newRoot.setPtr(at, tree.new(kid)); newRoot.setKey(at, kid.getKey(0))
setKid(m, newRoot, at, kid) ==
  Bind(pmNew(m, kid, 0), LAMBDA m1 :
    IF m1.panic THEN Fail(m1)
    ELSE IF ~getKeyOK(kid, 0) THEN Fail(m1)
    ELSE Bind(setKey(setPtr(newRoot, at, pmPtr(m, 0)), at, getKey(kid, 0)), LAMBDA n1 :
           IF n1 = PanicNode THEN Fail(m1) ELSE Res(m1, n1)))

\* the loop of BTree.Delete that builds the new root over split[i..]
RECURSIVE setKids(_, _, _)
setKids(r, split, i) ==
  IF r.m.panic THEN r
  ELSE IF i > Len(split) THEN r
  ELSE setKids(setKid(r.m, r.node, i - 1, split[i]), split, i + 1)

\* BTree.Delete, the root is too large : split it
deleteSplit(m, split) ==
  IF split[1] = PanicNode THEN Panic(m)
  ELSE IF Len(split) > 1
  THEN setRootOf(setKids(
         Res(m, setHeader(MakeNode(BTREE_PAGE_SIZE), BNODE_NODE, Len(split))),
         split, 1))
  ELSE setRoot(m, split[1], 0)

\* the end of BTree.Delete : install updated as the root
deleteInstall(m, updated) ==
  IF ~nbytesOK(updated) THEN Panic(m)
  ELSE IF nbytes(updated) <= BTREE_PAGE_SIZE THEN setRoot(m, updated, 0)
  ELSE deleteSplit(m, nodeSplit3(updated))

\* BTree.Delete, the root has only one child : the child's own buffer is
\* allocated again, then the child is deallocated
deleteShorten(m, kid) ==
  IF ~pmGetOK(m, kid) THEN PanicPM(m)
  ELSE pmDel(setRoot(m, pmGet(m, kid), kid), kid)

\* BTree.Delete after the old root was deallocated
deleteUpdate(m, updated) ==
  IF m.panic THEN m
  ELSE IF btype(updated) = BNODE_NODE /\ nkeys(updated) = 1
  THEN IF ~getPtrOK(updated, 0) THEN Panic(m)
       ELSE deleteShorten(m, getPtr(updated, 0))
  ELSE IF btype(updated) = BNODE_LEAF /\ nkeys(updated) = 0
  THEN [m EXCEPT !.root = 0, !.rootAt = Len(m.log)]
  ELSE deleteInstall(m, updated)

\* BTree.Delete, key found : free the old root and install updated
deleteRoot_newFirst(m, updated) ==
  [m |-> pmDel(deleteUpdate(m, updated), m.root), ret |-> TRUE]

deleteRoot(m, updated) ==
  [m |-> deleteUpdate(pmDel(m, m.root), updated), ret |-> TRUE]

\* BTree.Delete after treeDelete : [m, ret]
deleteResult_freeFirst(r) ==
  IF r.m.panic THEN [m |-> r.m, ret |-> FALSE]
  ELSE IF r.node.len = 0 THEN [m |-> pmDel(r.m, r.m.root), ret |-> FALSE]
  ELSE deleteRoot(r.m, r.node)

deleteResult(r) ==
  IF r.m.panic THEN [m |-> r.m, ret |-> FALSE]
  ELSE IF r.node.len = 0 THEN [m |-> r.m, ret |-> FALSE]        \* key not found
  ELSE deleteRoot(r.m, r.node)

\* BTree.Delete : [m, ret], the machine after the call and the returned bool
Delete(m, key) ==
  IF m.root = 0 THEN [m |-> m, ret |-> FALSE]                   \* empty tree
  ELSE IF ~pmGetOK(m, m.root) THEN [m |-> PanicPM(m), ret |-> FALSE]
  ELSE deleteResult(treeDelete(m, pmGet(m, m.root), key))

\* ---------------------------------------------------------------- inputs --
\* the keys "", "a", "b", "k" and the values "v", "v2"
SmallKeys == {<<>>, <<97>>, <<98>>, <<107>>}

SmallVals == {<<118>>, <<118, 50>>}

InsertInputs == SmallKeys \X SmallVals

\* a key one byte over BTREE_MAX_KEY_SIZE, a value one byte over
\* BTREE_MAX_VAL_SIZE
Rep(b, n) == [i \in 1..n |-> b]

BigKey == Rep(120, BTREE_MAX_KEY_SIZE + 1)

BigVal == Rep(121, BTREE_MAX_VAL_SIZE + 1)

OversizedInputs == {<<BigKey, <<118>>>>, <<<<97>>, BigVal>>}

\* ------------------------------------------------------------------ state --
VARIABLES
  root,       \* BTree.root
  pages,      \* C.pages : the live pages of the harness's page manager
  ref,        \* C.ref : the reference data
  allocs,     \* number of tree.new calls that returned
  frees,      \* number of tree.del calls that returned
  panicked,   \* a call panicked: the program has stopped
  last,       \* the last call: its arguments, result and page-manager calls
              \* (log: the new and del calls in order; pmfail: an assert of
              \* the page manager failed)
  nops        \* number of calls made

vars == <<root, pages, ref, allocs, frees, panicked, last, nops>>

NoCall ==
  [op |-> "none", key |-> <<>>, val |-> <<>>, ret |-> FALSE,
   rootBefore |-> 0, allocs |-> 0, frees |-> 0, log |-> <<>>, pmfail |-> FALSE,
   rootAt |-> 0, before |-> <<>>]

\* newC()
Init ==
  /\ root = 0
  /\ pages = <<>>
  /\ ref = <<>>
  /\ allocs = 0
  /\ frees = 0
  /\ panicked = FALSE
  /\ last = NoCall
  /\ nops = 0

\* the addresses the next page buffer of a call may get
FreshAddrs(pgs) ==
  IF PageIds \ DOMAIN pgs # {} THEN PageIds \ DOMAIN pgs
  ELSE {MinOf(Addrs \ DOMAIN pgs)}

\* the machine at the start of a call; p is the address of the next page buffer
Machine(p) ==
  [pages |-> pages, root |-> root, allocs |-> allocs, frees |-> frees,
   panic |-> FALSE, avoid |-> DOMAIN pages, nextp |-> p,
   log |-> <<>>, pmfail |-> FALSE, rootAt |-> 0]

Commit(m) ==
  /\ root' = m.root
  /\ pages' = m.pages
  /\ allocs' = m.allocs
  /\ frees' = m.frees
  /\ panicked' = m.panic
  /\ nops' = nops + 1

\* C.add(key, val)
Add(key, val) ==
  /\ ~panicked
  /\ nops < MaxOps
  /\ \E p \in FreshAddrs(pages) :
     \E m \in {Insert(Machine(p), key, val)} :
       /\ Commit(m)
       /\ ref' = IF m.panic THEN ref
                 ELSE [k \in DOMAIN ref \cup {key} |->
                         IF k = key THEN val ELSE ref[k]]
       /\ last' = [op |-> "Insert", key |-> key, val |-> val, ret |-> FALSE,
                   rootBefore |-> root,
                   allocs |-> m.allocs - allocs, frees |-> m.frees - frees,
                   log |-> m.log, pmfail |-> m.pmfail,
                   rootAt |-> m.rootAt, before |-> pages]

\* c.tree.Delete(key); delete(c.ref, key)
Del(key) ==
  /\ ~panicked
  /\ nops < MaxOps
  /\ \E p \in FreshAddrs(pages) :
     \E d \in {Delete(Machine(p), key)} :
     \E u \in {IF root \in DOMAIN pages
               THEN treeDelete(Machine(p), pages[root], key)
               ELSE Fail(Machine(p))} :
       /\ Commit(d.m)
       /\ ref' = IF d.m.panic THEN ref
                 ELSE [k \in DOMAIN ref \ {key} |-> ref[k]]
       /\ last' = [op |-> "Delete", key |-> key, val |-> <<>>, ret |-> d.ret,
                   rootBefore |-> root,
                   allocs |-> d.m.allocs - allocs, frees |-> d.m.frees - frees,
                   log |-> d.m.log, pmfail |-> d.m.pmfail,
                   rootAt |-> d.m.rootAt, before |-> pages,
                   updated |-> u.node, kids |-> u.m.pages]

\* the calls of the tests: keys and values within the size bounds
Next ==
  \/ \E kv \in InsertInputs : Add(kv[1], kv[2])
  \/ \E key \in SmallKeys : Del(key)

Spec == Init /\ [][Next]_vars

\* only Insert calls, with keys and values within the size bounds
NextInserts == \E kv \in InsertInputs : Add(kv[1], kv[2])

SpecInserts == Init /\ [][NextInserts]_vars

\* the calls of the tests and calls with a key or a value over the size bounds
NextOversized ==
  \/ \E kv \in InsertInputs \cup OversizedInputs : Add(kv[1], kv[2])
  \/ \E key \in SmallKeys \cup {BigKey} : Del(key)

SpecOversized == Init /\ [][NextOversized]_vars

\* ------------------------------------------------------------ built trees --
\* nodeAppendKV for the entries <<ptr, key, val>> of a node, from entry i on
RECURSIVE appendEntries(_, _, _)
appendEntries(node, entries, i) ==
  IF i > Len(entries) THEN node
  ELSE appendEntries(
         nodeAppendKV(node, i - 1, entries[i][1], entries[i][2], entries[i][3]),
         entries, i + 1)

\* a page of type t with the given entries
BuildNode(t, entries) ==
  appendEntries(setHeader(MakeNode(BTREE_PAGE_SIZE), t, Len(entries)), entries, 1)

\* a value of 1100 bytes: a leaf that keeps one such value stays over a
\* quarter of a page
WideVal == Rep(119, 1100)

\* a tree over pages built with nodeAppendKV: root, the pages and the keys
\* it holds.  Two leaves under an internal root:
\*   7: [5 "", 6 "b"]   5: ["", "a"]   6: ["b", "k"]
TwoLeafTree ==
  [root |-> 7,
   pages |-> (5 :> BuildNode(BNODE_LEAF, << <<0, <<>>, <<>>>>, <<0, <<97>>, <<118>>>> >>)
           @@ 6 :> BuildNode(BNODE_LEAF, << <<0, <<98>>, <<118>>>>, <<0, <<107>>, <<118>>>> >>)
           @@ 7 :> BuildNode(BNODE_NODE, << <<5, <<>>, <<>>>>, <<6, <<98>>, <<>>>> >>)),
   ref |-> (<<97>> :> <<118>> @@ <<98>> :> <<118>> @@ <<107>> :> <<118>>)]

\* three leaves under an internal root:
\*   8: [5 "", 6 "b", 7 "k"]   5: ["", "a"]   6: ["b"]   7: ["k"]
ThreeLeafTree ==
  [root |-> 8,
   pages |-> (5 :> BuildNode(BNODE_LEAF, << <<0, <<>>, <<>>>>, <<0, <<97>>, <<118>>>> >>)
           @@ 6 :> BuildNode(BNODE_LEAF, << <<0, <<98>>, <<118>>>> >>)
           @@ 7 :> BuildNode(BNODE_LEAF, << <<0, <<107>>, <<118>>>> >>)
           @@ 8 :> BuildNode(BNODE_NODE,
                     << <<5, <<>>, <<>>>>, <<6, <<98>>, <<>>>>, <<7, <<107>>, <<>>>> >>)),
   ref |-> (<<97>> :> <<118>> @@ <<98>> :> <<118>> @@ <<107>> :> <<118>>)]

\* two leaves with wide values under an internal root:
\*   7: [5 "", 6 "k"]   5: ["", "a", "b"]   6: ["k"]
WideLeafTree ==
  [root |-> 7,
   pages |-> (5 :> BuildNode(BNODE_LEAF,
                     << <<0, <<>>, <<>>>>, <<0, <<97>>, WideVal>>, <<0, <<98>>, WideVal>> >>)
           @@ 6 :> BuildNode(BNODE_LEAF, << <<0, <<107>>, WideVal>> >>)
           @@ 7 :> BuildNode(BNODE_NODE, << <<5, <<>>, <<>>>>, <<6, <<107>>, <<>>>> >>)),
   ref |-> (<<97>> :> WideVal @@ <<98>> :> WideVal @@ <<107>> :> WideVal)]

\* newC() : no page, root 0
EmptyTree == [root |-> 0, pages |-> <<>>, ref |-> <<>>]

BuiltTrees == {EmptyTree, TwoLeafTree, ThreeLeafTree, WideLeafTree}

\* a C whose tree is one of the built trees, each page allocated once
InitTree ==
  \E t \in BuiltTrees :
    /\ root = t.root
    /\ pages = t.pages
    /\ ref = t.ref
    /\ allocs = Cardinality(DOMAIN t.pages)
    /\ frees = 0
    /\ panicked = FALSE
    /\ last = NoCall
    /\ nops = 0

\* the calls of the tests on the built trees
SpecTree == InitTree /\ [][Next]_vars

\* -------------------------------------------------------- node functions --
\* a node with the given entries in the 2-page buffer of treeInsert
BuildWide(t, entries) ==
  appendEntries(setHeader(MakeNode(2 * BTREE_PAGE_SIZE), t, Len(entries)), entries, 1)

\* a value of the largest size Insert accepts
MaxVal == Rep(119, BTREE_MAX_VAL_SIZE)

\* with MaxVal and the sentinel in a leaf of 3 entries: nbytes = 4093
FillVal == Rep(119, 1045)

\* the leaf ["", a -> MaxVal, b -> FillVal] : no sibling of two small entries
\* can be merged into it
FullLeaf(a, b) ==
  BuildNode(BNODE_LEAF, << <<0, <<>>, <<>>>>, <<0, a, MaxVal>>, <<0, b, FillVal>> >>)

\* the nodes given to nodeSplit3: leaves of 6048 and 8063 bytes in the 2-page
\* buffer, and leaves within a page
SplitInputs ==
  {BuildWide(BNODE_LEAF, << <<0, <<>>, <<>>>>, <<0, <<97>>, MaxVal>>, <<0, <<98>>, MaxVal>> >>),
   BuildWide(BNODE_LEAF, << <<0, <<>>, <<>>>>, <<0, <<97>>, MaxVal>>, <<0, <<98>>, MaxVal>>,
                            <<0, <<107>>, Rep(119, 2000)>> >>),
   BuildWide(BNODE_LEAF, << <<0, <<>>, <<>>>>, <<0, <<97>>, <<118>>>>, <<0, <<98>>, <<118>>>> >>),
   BuildNode(BNODE_LEAF, << <<0, <<>>, <<>>>>, <<0, <<97>>, <<118>>>> >>)}

\* the leaves given to leafInsert as old
LeafInputs ==
  {BuildNode(BNODE_LEAF, << <<0, <<>>, <<>>>> >>),
   BuildNode(BNODE_LEAF, << <<0, <<>>, <<>>>>, <<0, <<97>>, <<118>>>> >>),
   BuildNode(BNODE_LEAF, << <<0, <<>>, <<>>>>, <<0, <<97>>, <<118>>>>, <<0, <<107>>, <<118>>>> >>)}

\* the internal nodes given to nodeReplace2Kid as old: 2, 3 and 4 children
KidInputs ==
  {BuildNode(BNODE_NODE, << <<5, <<>>, <<>>>>, <<6, <<98>>, <<>>>> >>),
   BuildNode(BNODE_NODE, << <<5, <<>>, <<>>>>, <<6, <<98>>, <<>>>>, <<7, <<107>>, <<>>>> >>),
   BuildNode(BNODE_NODE, << <<5, <<>>, <<>>>>, <<6, <<97>>, <<>>>>, <<7, <<98>>, <<>>>>,
                            <<8, <<107>>, <<>>>> >>)}

\* three leaves, the left one full:
\*   8: [5 "", 6 "k", 7 "n"]   5: ["", "a", "b"] (4093 bytes)  6: ["k", "m"]  7: ["n"]
FullLeftTree ==
  [root |-> 8,
   pages |-> (5 :> FullLeaf(<<97>>, <<98>>)
           @@ 6 :> BuildNode(BNODE_LEAF, << <<0, <<107>>, <<118>>>>, <<0, <<109>>, <<118>>>> >>)
           @@ 7 :> BuildNode(BNODE_LEAF, << <<0, <<110>>, <<118>>>> >>)
           @@ 8 :> BuildNode(BNODE_NODE,
                     << <<5, <<>>, <<>>>>, <<6, <<107>>, <<>>>>, <<7, <<110>>, <<>>>> >>)),
   ref |-> <<>>]

\* three leaves, the left and the right one full:
\*   8: [5 "", 6 "k", 7 "n"]   5, 7: 4093 bytes   6: ["k", "m"]
FullBothTree ==
  [root |-> 8,
   pages |-> (5 :> FullLeaf(<<97>>, <<98>>)
           @@ 6 :> BuildNode(BNODE_LEAF, << <<0, <<107>>, <<118>>>>, <<0, <<109>>, <<118>>>> >>)
           @@ 7 :> BuildNode(BNODE_LEAF,
                     << <<0, <<110>>, MaxVal>>, <<0, <<111>>, FillVal>>, <<0, <<112>>, <<>>>> >>)
           @@ 8 :> BuildNode(BNODE_NODE,
                     << <<5, <<>>, <<>>>>, <<6, <<107>>, <<>>>>, <<7, <<110>>, <<>>>> >>)),
   ref |-> <<>>]

\* trees in which a delete leaves a child without entries:
\*   8: [5 "", 6 "k", 7 "n"]   5, 7: 4093 and 4094 bytes   6: ["k"]
\*   8: [5 "", 7 "n"]          5: [""]   7: 4094 bytes
\*   6: [5 ""]                 5: [""]
EmptyKidTrees ==
  {[FullBothTree EXCEPT
      !.pages[6] = BuildNode(BNODE_LEAF, << <<0, <<107>>, <<118>>>> >>)],
   [root |-> 8,
    pages |-> (5 :> BuildNode(BNODE_LEAF, << <<0, <<>>, <<>>>> >>)
            @@ 7 :> FullBothTree.pages[7]
            @@ 8 :> BuildNode(BNODE_NODE, << <<5, <<>>, <<>>>>, <<7, <<110>>, <<>>>> >>)),
    ref |-> <<>>],
   [root |-> 6,
    pages |-> (5 :> BuildNode(BNODE_LEAF, << <<0, <<>>, <<>>>> >>)
            @@ 6 :> BuildNode(BNODE_NODE, << <<5, <<>>, <<>>>> >>)),
    ref |-> <<>>]}

NodeTrees ==
  BuiltTrees \cup {FullLeftTree, FullBothTree} \cup EmptyKidTrees

\* the keys given to treeDelete: "", "a", "b", "k", "m", "n"
DeleteKeys == SmallKeys \cup {<<109>>, <<110>>}

\* one of the trees, before a node function is applied
InitNodes ==
  \E t \in NodeTrees :
    /\ root = t.root
    /\ pages = t.pages
    /\ ref = t.ref
    /\ allocs = Cardinality(DOMAIN t.pages)
    /\ frees = 0
    /\ panicked = FALSE
    /\ last = NoCall
    /\ nops = 0

\* a call of a node function that uses no page manager
NodeCall(call) ==
  /\ root = 0
  /\ nops = 0
  /\ last' = call
  /\ nops' = 1
  /\ UNCHANGED <<root, pages, ref, allocs, frees, panicked>>

\* nsplit, split := nodeSplit3(node)
Split3(node) ==
  NodeCall([op |-> "nodeSplit3", node |-> node, out |-> nodeSplit3(node)])

\* leafInsert(new, old, idx, key, val) with the 2-page buffer of treeInsert
LeafInsert(old, idx, key, val) ==
  NodeCall([op |-> "leafInsert", node |-> old, idx |-> idx, key |-> key, val |-> val,
            out |-> leafInsert(MakeNode(2 * BTREE_PAGE_SIZE), old, idx, key, val)])

\* nodeReplace2Kid(new, old, idx, ptr, key) with the page buffer of nodeDelete
Replace2Kid(old, idx, ptr, key) ==
  NodeCall([op |-> "nodeReplace2Kid", node |-> old, idx |-> idx, ptr |-> ptr, key |-> key,
            out |-> nodeReplace2Kid(MakeNode(BTREE_PAGE_SIZE), old, idx, ptr, key)])

\* nodeLookUpLE(node, key)
LookUp(node, key) ==
  NodeCall([op |-> "nodeLookUpLE", node |-> node, key |-> key,
            out |-> nodeLookUpLE(node, key)])

\* the record of treeDelete(tree, node, key) on an internal node: r is the
\* result, kid the result of the recursion into the kid
DeleteCall(node, key, r, kid) ==
  [op |-> "nodeDelete", node |-> node, idx |-> nodeLookUpLE(node, key), key |-> key,
   updated |-> kid.node, out |-> r.node, before |-> pages,
   allocs |-> r.m.allocs - allocs, frees |-> r.m.frees - frees,
   log |-> r.m.log, pmfail |-> r.m.pmfail]

\* treeDelete(tree, tree.get(tree.root), key) on a tree with an internal root
TreeDelete(key) ==
  /\ root # 0
  /\ nops = 0
  /\ \E p \in FreshAddrs(pages) :
     \E r \in {treeDelete(Machine(p), pages[root], key)} :
     \E kid \in {treeDelete(Machine(p),
                             pages[getPtr(pages[root], nodeLookUpLE(pages[root], key))],
                             key)} :
       /\ pages' = r.m.pages
       /\ allocs' = r.m.allocs
       /\ frees' = r.m.frees
       /\ panicked' = r.m.panic
       /\ nops' = 1
       /\ last' = DeleteCall(pages[root], key, r, kid)
       /\ UNCHANGED <<root, ref>>

NextNodes ==
  \/ \E node \in SplitInputs : Split3(node)
  \/ \E old \in LeafInputs : \E idx \in 0..nkeys(old) :
       \E kv \in InsertInputs : LeafInsert(old, idx, kv[1], kv[2])
  \/ \E old \in KidInputs : \E idx \in 0..(nkeys(old) - 2) :
       \E ptr \in {9, 10} : \E key \in {<<>>, <<97>>, <<98>>} :
         Replace2Kid(old, idx, ptr, key)
  \/ \E key \in DeleteKeys : TreeDelete(key)
  \/ \E node \in LeafInputs \cup KidInputs
                  \cup {TwoLeafTree.pages[6], ThreeLeafTree.pages[7], FullLeaf(<<97>>, <<97, 97>>)} :
       \E key \in DeleteKeys \cup {<<97, 97>>, <<97, 98>>, <<108>>} : LookUp(node, key)

\* single calls of the node functions
SpecNodes == InitNodes /\ [][NextNodes]_vars

\* ------------------------------------------------------------ observation --
MaxHeight == 3

NotFound == [found |-> FALSE, val |-> <<>>]

\* descend from page ptr of the page map pgs, following nodeLookUpLE(key) at
\* each internal node, and read the leaf slot reached
RECURSIVE LookupFrom(_, _, _, _)
LookupFrom(pgs, ptr, key, depth) ==
  IF depth = 0 \/ ptr \notin DOMAIN pgs THEN NotFound
  ELSE
  LET node == pgs[ptr]
      idx  == nodeLookUpLE(node, key)
  IN  IF idx = -1 THEN NotFound
      ELSE IF btype(node) = BNODE_LEAF
      THEN IF getKeyOK(node, idx) /\ getValOK(node, idx) /\ getKey(node, idx) = key
           THEN [found |-> TRUE, val |-> getVal(node, idx)]
           ELSE NotFound
      ELSE IF btype(node) = BNODE_NODE /\ getPtrOK(node, idx)
      THEN LookupFrom(pgs, getPtr(node, idx), key, depth - 1)
      ELSE NotFound

Lookup(pgs, rt, key) == LookupFrom(pgs, rt, key, MaxHeight)

\* the pages reachable from page ptr through the pointers of internal nodes
RECURSIVE ReachFrom(_, _, _)
ReachFrom(pgs, ptr, depth) ==
  IF ptr = 0 \/ depth = 0 THEN {}
  ELSE IF ptr \notin DOMAIN pgs THEN {ptr}
  ELSE LET node == pgs[ptr] IN
       IF btype(node) = BNODE_NODE
       THEN {ptr} \cup UNION {IF getPtrOK(node, i)
                               THEN ReachFrom(pgs, getPtr(node, i), depth - 1)
                               ELSE {} : i \in 0..(nkeys(node) - 1)}
       ELSE {ptr}

Reachable == ReachFrom(pages, root, MaxHeight)

\* the pages of pgs on the descent from page ptr for key, following
\* nodeLookUpLE at each internal node; with sib, also the kids next to the
\* kid taken at each internal node
RECURSIVE PathFrom(_, _, _, _, _)
PathFrom(pgs, ptr, key, depth, sib) ==
  IF depth = 0 \/ ptr \notin DOMAIN pgs THEN {}
  ELSE
  LET node == pgs[ptr]
      idx  == nodeLookUpLE(node, key)
  IN  IF btype(node) # BNODE_NODE \/ idx = -1 THEN {ptr}
      ELSE IF ~getPtrOK(node, idx) THEN {ptr}
      ELSE {ptr} \cup PathFrom(pgs, getPtr(node, idx), key, depth - 1, sib)
                 \cup (IF sib
                       THEN {getPtr(node, j) :
                               j \in {idx - 1, idx + 1} \cap 0..(nkeys(node) - 1)}
                       ELSE {})

\* a call was made in this step and returned
Returned == nops' = nops + 1 /\ ~panicked'

\* the (key, value) pairs of the slots from..n-1 of a leaf, in slot order
RECURSIVE LeafPairs(_, _)
LeafPairs(node, from) ==
  IF from >= nkeys(node) THEN <<>>
  ELSE <<IF getKeyOK(node, from) /\ getValOK(node, from)
         THEN <<getKey(node, from), getVal(node, from)>>
         ELSE <<>> >> \o LeafPairs(node, from + 1)

\* the in-order traversal of the leaves below page ptr; skip is 1 for the
\* leftmost leaf, whose slot 0 is the root sentinel
RECURSIVE Traverse(_, _, _, _)
RECURSIVE TraverseKids(_, _, _, _, _)
Traverse(pgs, ptr, skip, depth) ==
  IF depth = 0 \/ ptr \notin DOMAIN pgs THEN <<>>
  ELSE IF btype(pgs[ptr]) = BNODE_NODE
  THEN TraverseKids(pgs, pgs[ptr], 0, skip, depth - 1)
  ELSE LeafPairs(pgs[ptr], skip)

TraverseKids(pgs, node, i, skip, depth) ==
  IF i >= nkeys(node) THEN <<>>
  ELSE (IF getPtrOK(node, i)
        THEN Traverse(pgs, getPtr(node, i), IF i = 0 THEN skip ELSE 0, depth)
        ELSE <<>>)
       \o TraverseKids(pgs, node, i + 1, skip, depth)

Traversal == Traverse(pages, root, 1, MaxHeight)

\* the pairs of the reference map f in ascending key order
RECURSIVE SortedPairs(_)
SortedPairs(f) ==
  IF DOMAIN f = {} THEN <<>>
  ELSE LET k == CHOOSE x \in DOMAIN f : \A y \in DOMAIN f : Compare(x, y) <= 0
       IN  <<<<k, f[k]>>>> \o SortedPairs([y \in DOMAIN f \ {k} |-> f[y]])

\* the entry (pointer, key, value) at slot idx of node, <<>> when the slot
\* cannot be read
Entry(node, idx) ==
  IF getPtrOK(node, idx) /\ getKeyOK(node, idx) /\ getValOK(node, idx)
  THEN <<getPtr(node, idx), getKey(node, idx), getVal(node, idx)>>
  ELSE <<>>

\* the entries of node in slot order
Entries(node) ==
  IF node = PanicNode \/ node.len < 4 THEN <<>>
  ELSE [i \in 1..nkeys(node) |-> Entry(node, i - 1)]

\* the entries of the nodes i.. of a sequence of nodes, concatenated
RECURSIVE ConcatEntries(_, _)
ConcatEntries(nodes, i) ==
  IF i > Len(nodes) THEN <<>>
  ELSE Entries(nodes[i]) \o ConcatEntries(nodes, i + 1)

\* the pages allocated by the last call
NewPtrs == {last.log[j][2] : j \in {i \in DOMAIN last.log : last.log[i][1] = "new"}}

\* the pages that replace page q, freed by the last call: the new root
\* replaces the old root, the page allocated below the root replaces the old
\* child and the merged sibling
Replacements(q) ==
  IF q = last.rootBefore THEN NewPtrs \cap {root} ELSE NewPtrs \ {root}

\* the positions in the last call's log of the frees and of the allocates of
\* their replacements
FreeThenNew ==
  {ij \in (DOMAIN last.log) \X (DOMAIN last.log) :
     /\ last.log[ij[1]][1] = "del"
     /\ last.log[ij[2]][1] = "new"
     /\ last.log[ij[2]][2] \in Replacements(last.log[ij[1]][2])}

\* the keys of node at the indices 1..n-1 are strictly ascending
KeysAscending(node) ==
  \A i \in 1..(nkeys(node) - 2) :
    /\ getKeyOK(node, i) /\ getKeyOK(node, i + 1)
    /\ Compare(getKey(node, i), getKey(node, i + 1)) < 0

\* the keys stored in the subtree of page ptr
RECURSIVE SubtreeKeys(_, _, _)
SubtreeKeys(pgs, ptr, depth) ==
  IF depth = 0 \/ ptr \notin DOMAIN pgs THEN {}
  ELSE LET node == pgs[ptr] IN
       {getKey(node, i) : i \in {j \in 0..(nkeys(node) - 1) : getKeyOK(node, j)}}
       \cup (IF btype(node) = BNODE_NODE
             THEN UNION {IF getPtrOK(node, i)
                         THEN SubtreeKeys(pgs, getPtr(node, i), depth - 1)
                         ELSE {} : i \in 0..(nkeys(node) - 1)}
             ELSE {})

\* key(0) of page ptr is less than or equal to every key of its subtree
SentinelLeast(pgs, ptr) ==
  pgs[ptr].len >= 4 /\ nkeys(pgs[ptr]) > 0 =>
    /\ getKeyOK(pgs[ptr], 0)
    /\ \A k \in SubtreeKeys(pgs, ptr, MaxHeight) : Compare(getKey(pgs[ptr], 0), k) <= 0

\* --------------------------------------------------------------- claims ----
\* C1: every key inserted and not deleted since is found by the descent with
\* nodeLookUpLE from the root, with the value of its last Insert.
C1_InsertedKeysRetrievable ==
  ~panicked =>
    \A k \in DOMAIN ref : Lookup(pages, root, k) = [found |-> TRUE, val |-> ref[k]]

\* Insert("a","v"), Insert("b","v") : both calls return and "b" is not found
C1_Failure ==
  /\ nops = 2 /\ ~panicked /\ last.op = "Insert" /\ last.key = <<98>>
  /\ ref = (<<97>> :> <<118>> @@ <<98>> :> <<118>>)
  /\ Lookup(pages, root, <<97>>) = [found |-> TRUE, val |-> <<118>>]
  /\ ~Lookup(pages, root, <<98>>).found

\* C2: Insert(k, v2) on a tree that contains k overwrites the value: the leaf
\* keeps its number of entries and k is found with v2 afterwards.
C2_InsertExistingOverwrites ==
  [][(nops' = nops + 1 /\ last'.op = "Insert" /\ last'.key \in DOMAIN ref)
       => /\ ~panicked'
          /\ root' \in DOMAIN pages'
          /\ btype(pages'[root']) = BNODE_LEAF
          /\ nkeys(pages'[root']) = nkeys(pages[root])
          /\ Lookup(pages', root', last'.key) = [found |-> TRUE, val |-> last'.val]]_vars

\* Insert("k", v), Insert("k","v2") : the root is a page of type 0 with no entry
C2_Failure ==
  /\ nops = 2 /\ ~panicked /\ last.op = "Insert" /\ last.rootBefore # 0
  /\ last.key = <<107>> /\ last.val = <<118, 50>>
  /\ ref = (<<107>> :> <<118, 50>>)
  /\ root \in DOMAIN pages
  /\ btype(pages[root]) = 0 /\ nkeys(pages[root]) = 0

\* C3: Insert on an empty tree makes one allocate and no free and sets root to
\* a leaf of two entries: the sentinel ("", "", 0) and (k, v, 0).
C3_FirstInsertMakesTwoEntryLeaf ==
  (last.op = "Insert" /\ last.rootBefore = 0) =>
    /\ ~panicked
    /\ last.allocs = 1 /\ last.frees = 0
    /\ root # 0 /\ root \in DOMAIN pages
    /\ LET node == pages[root] IN
         /\ btype(node) = BNODE_LEAF /\ nkeys(node) = 2
         /\ getKeyOK(node, 0) /\ getValOK(node, 0) /\ getPtrOK(node, 0)
         /\ getKey(node, 0) = <<>> /\ getVal(node, 0) = <<>> /\ getPtr(node, 0) = 0
         /\ getKeyOK(node, 1) /\ getValOK(node, 1) /\ getPtrOK(node, 1)
         /\ getKey(node, 1) = last.key /\ getVal(node, 1) = last.val
         /\ getPtr(node, 1) = 0

C3_Witness ==
  /\ last.op = "Insert" /\ last.rootBefore = 0 /\ ~panicked
  /\ root \in DOMAIN pages /\ last.key = <<107>> /\ last.val = <<118>>

\* C4: Delete(k) returns true exactly when k was inserted by the user and not
\* deleted since.
C4_DeleteTrueIffInserted ==
  [][(Returned /\ last'.op = "Delete")
       => (last'.ret <=> last'.key \in DOMAIN ref)]_vars

\* Insert("a","v"), Delete("") : Delete returns true for the root sentinel
C4_Failure ==
  /\ nops = 2 /\ ~panicked /\ last.op = "Delete" /\ last.key = <<>> /\ last.ret
  /\ ref = (<<97>> :> <<118>>)

\* C5: a Delete that returns false made no allocate and no free call and left
\* the root id, the set of live pages and their contents unchanged.
C5_DeleteFalseChangesNothing ==
  [][(Returned /\ last'.op = "Delete" /\ ~last'.ret)
       => /\ allocs' = allocs /\ frees' = frees
          /\ root' = root /\ pages' = pages]_vars

C5_Witness ==
  /\ last.op = "Delete" /\ ~last.ret /\ ~panicked
  /\ root # 0 /\ root \in DOMAIN pages /\ nkeys(pages[root]) >= 2

\* C6: when every key the user inserted has been deleted again the tree is
\* empty: root = 0 and no page is live.
C6_AllDeletedIsEmpty ==
  (~panicked /\ DOMAIN ref = {}) => (root = 0 /\ DOMAIN pages = {})

\* Insert("a", v), Delete("a") : the root is a live leaf holding the sentinel
C6_Failure ==
  /\ nops = 2 /\ ~panicked /\ last.op = "Delete" /\ last.key = <<97>> /\ last.ret
  /\ DOMAIN ref = {}
  /\ root # 0 /\ DOMAIN pages = {root}
  /\ btype(pages[root]) = BNODE_LEAF /\ nkeys(pages[root]) = 1

\* C7: at the end of every call, allocate calls minus free calls is the number
\* of nodes reachable from root, and the live pages are exactly those nodes.
C7_PageAccounting ==
  ~panicked =>
    /\ allocs - frees = Cardinality(Reachable)
    /\ DOMAIN pages = Reachable

C7_Witness ==
  ~panicked /\ root # 0 /\ allocs >= 2 /\ frees >= 1 /\ last.op = "Delete" /\ last.ret

\* C8: no Insert call of a sequence of Insert calls with keys and values
\* within the size bounds panics.
C8_InsertInfallible ==
  (last.op = "Insert" /\ Len(last.key) <= BTREE_MAX_KEY_SIZE
                      /\ Len(last.val) <= BTREE_MAX_VAL_SIZE)
    => ~panicked

\* Insert("b", v), Insert("a", v), Insert("k", v) : the third call panics
C8_Failure ==
  /\ nops = 3 /\ panicked /\ last.op = "Insert" /\ last.key = <<107>>
  /\ DOMAIN ref = {<<97>>, <<98>>}
  /\ Lookup(pages, root, <<98>>) = NotFound

\* C9: an Insert with a key over 1000 bytes or a value over 3000 bytes halts
\* and installs no root that holds the oversized entry.
C9_OversizedInsertHalts ==
  (last.op = "Insert" /\ (Len(last.key) > BTREE_MAX_KEY_SIZE
                           \/ Len(last.val) > BTREE_MAX_VAL_SIZE))
    => /\ panicked
       /\ ~Lookup(pages, root, last.key).found

\* Insert of a 1001-byte key into the empty tree : the call returns and the
\* root leaf holds the key
C9_Failure ==
  /\ nops = 1 /\ ~panicked /\ last.op = "Insert" /\ last.key = BigKey
  /\ root \in DOMAIN pages
  /\ Lookup(pages, root, BigKey) = [found |-> TRUE, val |-> last.val]

\* C10: the empty key, once inserted, is found with its inserted value; when
\* it was never inserted Delete("") reports it absent.
C10_EmptyKeyDistinguishable ==
  [][Returned
       => /\ (<<>> \in DOMAIN ref' =>
                Lookup(pages', root', <<>>) = [found |-> TRUE, val |-> ref'[<<>>]])
          /\ (last'.op = "Delete" /\ last'.key = <<>> /\ <<>> \notin DOMAIN ref
                => ~last'.ret)]_vars

\* Insert("a", v), Insert("", v) : both calls return and "" is not found
C10_Failure ==
  /\ nops = 2 /\ ~panicked /\ last.op = "Insert" /\ last.key = <<>>
  /\ DOMAIN ref = {<<>>, <<97>>}
  /\ ~Lookup(pages, root, <<>>).found

\* C11: root is 0 or the id of a live page, and every node reachable from root
\* is a live page of type 1 or 2 with nbytes <= 4096.
C11_ReachableNodesWellTyped ==
  ~panicked =>
    /\ (root = 0 \/ root \in DOMAIN pages)
    /\ \A p \in Reachable :
         /\ p \in DOMAIN pages
         /\ btype(pages[p]) \in {BNODE_NODE, BNODE_LEAF}
         /\ nbytesOK(pages[p])
         /\ nbytes(pages[p]) <= BTREE_PAGE_SIZE

\* Insert("a","v"), Insert("a","v") : the root page has type 0
C11_Failure ==
  /\ nops = 2 /\ ~panicked /\ last.op = "Insert" /\ last.rootBefore # 0
  /\ last.key = <<97>> /\ last.val = <<118>>
  /\ ref = (<<97>> :> <<118>>)
  /\ root \in Reachable /\ root \in DOMAIN pages
  /\ btype(pages[root]) \notin {BNODE_NODE, BNODE_LEAF}

\* C12: in every node reachable from root the keys at the indices 1..n-1 are
\* strictly ascending and key(0) is less than or equal to every key of the
\* node's subtree.
C12_KeysAscendingAfterSentinel ==
  ~panicked =>
    \A p \in Reachable \cap DOMAIN pages :
      KeysAscending(pages[p]) /\ SentinelLeast(pages, p)

\* Insert("a","v"), Insert("k","v") : the root leaf holds the keys "", "a", ""
C12_Failure ==
  /\ nops = 2 /\ ~panicked /\ last.op = "Insert" /\ last.key = <<107>>
  /\ DOMAIN ref = {<<97>>, <<107>>}
  /\ root \in DOMAIN pages /\ btype(pages[root]) = BNODE_LEAF
  /\ nkeys(pages[root]) = 3
  /\ getKeyOK(pages[root], 1) /\ getKey(pages[root], 1) = <<97>>
  /\ getKeyOK(pages[root], 2) /\ getKey(pages[root], 2) = <<>>

C16_InsertionOrderIndependent ==
  (~panicked /\ nops = Cardinality(DOMAIN ref)) => Traversal = SortedPairs(ref)

\* Insert("b","v"), Insert("a","v") : slot 1 of the root leaf, where "a"
\* belongs, holds no readable entry; the traversal is not the sorted sequence
C16_Failure ==
  /\ nops = 2 /\ ~panicked /\ last.op = "Insert" /\ last.key = <<97>>
  /\ ref = (<<97>> :> <<118>> @@ <<98>> :> <<118>>)
  /\ SortedPairs(ref) = << <<<<97>>, <<118>>>>, <<<<98>>, <<118>>>> >>
  /\ Len(Traversal) = 2
  /\ Traversal[1] # <<<<97>>, <<118>>>>
  /\ Traversal[2] = <<<<98>>, <<118>>>>

\* C17: nodeSplit3 of a node with nbytes > 4096 returns 2 or 3 nodes, each
\* with nbytes <= 4096 and at least one entry, whose entries concatenated in
\* order are the entries of the input.
C17_Split3KeepsEntries ==
  (last.op = "nodeSplit3" /\ nbytes(last.node) > BTREE_PAGE_SIZE) =>
    /\ Len(last.out) \in {2, 3}
    /\ \A i \in DOMAIN last.out :
         /\ nbytesOK(last.out[i])
         /\ nbytes(last.out[i]) <= BTREE_PAGE_SIZE
         /\ nkeys(last.out[i]) >= 1
    /\ ConcatEntries(last.out, 1) = Entries(last.node)

\* nodeSplit3 of the leaf ["", a -> 3000 bytes, b -> 3000 bytes] of 6048
\* bytes : two nodes of type 0 without entries
C17_Failure ==
  /\ last.op = "nodeSplit3" /\ nbytes(last.node) = 6048
  /\ Len(Entries(last.node)) = 3
  /\ Len(last.out) = 2
  /\ btype(last.out[1]) = 0 /\ nkeys(last.out[1]) = 0
  /\ btype(last.out[2]) = 0 /\ nkeys(last.out[2]) = 0
  /\ ConcatEntries(last.out, 1) = <<>>

\* C18: leafInsert(new, old, i, key, val) with 0 <= i <= old.nkeys makes a
\* leaf of old.nkeys + 1 entries: slot i holds (key, val), the slots before i
\* are old's, the slots after i are old's slots from i on, and offset(n) is
\* the total size of the entries.
C18_LeafInsertPlacesEntry ==
  last.op = "leafInsert" =>
    /\ last.out # PanicNode
    /\ btype(last.out) = BNODE_LEAF
    /\ nkeys(last.out) = nkeys(last.node) + 1
    /\ Entry(last.out, last.idx) = <<0, last.key, last.val>>
    /\ \A j \in 0..(last.idx - 1) : Entry(last.out, j) = Entry(last.node, j)
    /\ \A j \in (last.idx + 1)..nkeys(last.node) :
         Entry(last.out, j) = Entry(last.node, j - 1)
    /\ getOffsetOK(last.out, nkeys(last.out))
    /\ getOffset(last.out, nkeys(last.out))
         = getOffset(last.node, nkeys(last.node)) + 4 + Len(last.key) + Len(last.val)

\* leafInsert(new, ["", a -> v], 2, "k", "v") : the leaf has 3 slots and slot
\* 2 does not hold ("k", "v")
C18_Failure ==
  /\ last.op = "leafInsert" /\ last.idx = 2 /\ nkeys(last.node) = 2
  /\ last.key = <<107>> /\ last.val = <<118>>
  /\ last.out # PanicNode /\ nkeys(last.out) = 3
  /\ Entry(last.out, 0) = Entry(last.node, 0)
  /\ Entry(last.out, 1) = Entry(last.node, 1)
  /\ Entry(last.out, 2) = <<0, <<>>, <<>>>>

\* the pointer and the key at slot idx of an internal node
Link(node, idx) ==
  IF getPtrOK(node, idx) /\ getKeyOK(node, idx)
  THEN <<getPtr(node, idx), getKey(node, idx)>>
  ELSE <<>>

\* C19: nodeReplace2Kid(new, old, i, ptr, key) with i + 1 < old.nkeys makes an
\* internal node of old.nkeys - 1 entries: the slots before i are old's, slot
\* i is (ptr, key), and the slots after i are old's slots from i + 2 on.
C19_Replace2KidKeepsOtherKids ==
  last.op = "nodeReplace2Kid" =>
    /\ last.out # PanicNode
    /\ btype(last.out) = BNODE_NODE
    /\ nkeys(last.out) = nkeys(last.node) - 1
    /\ \A j \in 0..(last.idx - 1) : Link(last.out, j) = Link(last.node, j)
    /\ Link(last.out, last.idx) = <<last.ptr, last.key>>
    /\ \A j \in (last.idx + 1)..(nkeys(last.node) - 2) :
         Link(last.out, j) = Link(last.node, j + 1)

\* nodeReplace2Kid(new, [5 "", 6 "b", 7 "k"], 0, 9, "") : the result is
\* [9 "", 0 ""], the pointer 7 is dropped
C19_Failure ==
  /\ last.op = "nodeReplace2Kid" /\ last.idx = 0 /\ nkeys(last.node) = 3
  /\ last.ptr = 9 /\ last.key = <<>>
  /\ Link(last.node, 2) = <<7, <<107>>>>
  /\ last.out # PanicNode /\ nkeys(last.out) = 2
  /\ Link(last.out, 0) = <<9, <<>>>>
  /\ Link(last.out, 1) = <<0, <<>>>>

\* the last call was treeDelete on an internal node and the key was found
\* in the kid
KidUpdated == last.op = "nodeDelete" /\ last.updated.len # 0

\* the sibling at slot at of the node of the last call fits a merge with the
\* updated kid
SiblingFits(at) ==
  /\ at >= 0 /\ at < nkeys(last.node)
  /\ nbytes(last.before[getPtr(last.node, at)]) + nbytes(last.updated) - 4
       <= BTREE_PAGE_SIZE

\* the decision the rule gives for the last call: -1 left, 1 right, 0 none
MergeRule ==
  IF nbytes(last.updated) > 1024 THEN 0
  ELSE IF SiblingFits(last.idx - 1) THEN -1
  ELSE IF SiblingFits(last.idx + 1) THEN 1
  ELSE 0

\* the last call merged the kid with the sibling at slot at: it freed the
\* kid and the sibling, allocated one page, and the parent lost one entry
MergedWith(at) ==
  /\ ~panicked
  /\ last.frees = 2 /\ last.allocs = 1
  /\ Len(last.log) = 3
  /\ last.log[1] = <<"del", getPtr(last.node, last.idx)>>
  /\ last.log[2] = <<"del", getPtr(last.node, at)>>
  /\ last.log[3][1] = "new"
  /\ nkeys(last.out) = nkeys(last.node) - 1

\* C20: after a child update in Delete, no merge happens when updated.nbytes
\* > 1024; otherwise the child is merged with its left sibling when one
\* exists and sibling.nbytes + updated.nbytes - 4 <= 4096, else with its right
\* sibling under the same condition, else not merged; a merge allocates one
\* page, frees both old children, and the parent loses one entry.
C20_MergeDecision ==
  KidUpdated =>
    /\ MergeRule = -1 => MergedWith(last.idx - 1)
    /\ MergeRule = 1 => MergedWith(last.idx + 1)
    /\ MergeRule = 0 => /\ last.frees = 1
                        /\ last.log[1] = <<"del", getPtr(last.node, last.idx)>>
                        /\ \A i \in DOMAIN last.log : i > 1 => last.log[i][1] = "new"
                        /\ (~panicked /\ nkeys(last.updated) > 0)
                             => nkeys(last.out) = nkeys(last.node)

\* treeDelete for "k" on the root of the tree whose left leaf is full : the
\* left sibling does not fit, the kid is merged with the right sibling
C20_Witness ==
  /\ KidUpdated /\ last.before = FullLeftTree.pages /\ last.key = <<107>>
  /\ last.idx = 1 /\ nbytes(last.updated) <= 1024
  /\ ~SiblingFits(0) /\ SiblingFits(2)
  /\ MergeRule = 1 /\ MergedWith(2)

\* C21: in nodeDelete, when the updated child has no entry, the child is
\* merged with a sibling whenever the parent has more than one child; only
\* with a parent of exactly one child, at slot 0, is no merge chosen, and then
\* the parent becomes empty: assert(node.nkeys() == 1 && idx == 0) never fails.
C21_EmptyKidMergedOrOnlyKid ==
  (KidUpdated /\ nkeys(last.updated) = 0) =>
    /\ ~panicked
    /\ nkeys(last.node) > 1 =>
         \/ MergedWith(last.idx - 1)
         \/ MergedWith(last.idx + 1)
    /\ nkeys(last.node) = 1 =>
         /\ last.idx = 0
         /\ last.frees = 1 /\ last.allocs = 0
         /\ btype(last.out) = BNODE_NODE /\ nkeys(last.out) = 0

\* treeDelete for "" on the root with a single child : the child becomes
\* empty, no merge is chosen and the parent becomes empty too
C21_Witness ==
  /\ KidUpdated /\ nkeys(last.updated) = 0 /\ ~panicked
  /\ DOMAIN last.before = {5, 6} /\ last.key = <<>>
  /\ nkeys(last.node) = 1 /\ last.idx = 0
  /\ last.log = << <<"del", 5>> >>
  /\ btype(last.out) = BNODE_NODE /\ nkeys(last.out) = 0

\* C23: every buffer passed to tree.new by an Insert or a Delete is at most
\* BTREE_PAGE_SIZE bytes long, never the 2-page scratch buffer, and encodes a
\* node of nbytes <= BTREE_PAGE_SIZE; every pointer tree.new returns is non-zero.
C23_AllocatedBuffersPageSized ==
  \A p \in NewPtrs :
    /\ p # 0
    /\ p \in DOMAIN pages =>
         /\ pages[p].len <= BTREE_PAGE_SIZE
         /\ nbytes(pages[p]) <= BTREE_PAGE_SIZE

\* a Delete that returned true installed the 2-page buffer of treeDelete as
\* the root page
C23_Failure ==
  /\ last.op = "Delete" /\ last.ret = TRUE /\ ~panicked
  /\ root \in NewPtrs /\ root \in DOMAIN pages
  /\ pages[root].len = 2 * BTREE_PAGE_SIZE
  /\ nbytes(pages[root]) <= BTREE_PAGE_SIZE

\* C26: nodeLookUpLE(node, key), for a node of n >= 1 entries whose keys at
\* 1..n-1 are strictly ascending, returns the largest i in [1, n) with
\* key(i) <= key, or 0 when there is none; when key equals key(i) for an
\* i >= 1 it returns that i, and the result is always less than n.
C26_LookUpLargestLE ==
  (last.op = "nodeLookUpLE" /\ nkeys(last.node) >= 1 /\ KeysAscending(last.node)) =>
    LET n == nkeys(last.node)
        \* a <= b in the byte order: a is a prefix of b, or a has the smaller
        \* byte at the first place where they differ
        LE(a, b) == \/ (Len(a) <= Len(b) /\ \A j \in 1..Len(a) : a[j] = b[j])
                    \/ \E d \in 1..MinOf({Len(a), Len(b)}) :
                         /\ a[d] < b[d]
                         /\ \A j \in 1..(d - 1) : a[j] = b[j]
        below == {i \in 1..(n - 1) : LE(getKey(last.node, i), last.key)}
    IN /\ last.out \in 0..(n - 1)
       /\ below = {} => last.out = 0
       /\ below # {} => (last.out \in below /\ \A i \in below : i <= last.out)
       /\ \A i \in 1..(n - 1) : getKey(last.node, i) = last.key => last.out = i

\* the key equals key(1) of a node of three entries, and key(2) is greater
C26_Witness ==
  /\ last.op = "nodeLookUpLE" /\ KeysAscending(last.node)
  /\ nkeys(last.node) = 3
  /\ getKey(last.node, 1) = last.key
  /\ last.out = 1

C25_CopyOnWrite ==
  last.op \in {"Insert", "Delete"} =>
    LET path  == PathFrom(last.before, last.rootBefore, last.key, MaxHeight, FALSE)
        near  == PathFrom(last.before, last.rootBefore, last.key, MaxHeight, TRUE)
        freed == DOMAIN last.before \ DOMAIN pages
    IN /\ \A q \in DOMAIN last.before \cap DOMAIN pages : pages[q] = last.before[q]
       /\ last.op = "Insert" => freed \subseteq path
       /\ last.op = "Delete" =>
            /\ freed \subseteq near
            /\ freed \ path # {} => Cardinality(freed \ path) < Cardinality(path)

\* Delete("k") on the tree of three leaves : the root, the leaf of "k" and
\* the sibling merged with it are freed, the first leaf stays as it was
C25_Witness ==
  /\ last.op = "Delete" /\ last.key = <<107>> /\ ~panicked /\ last.ret
  /\ last.before = ThreeLeafTree.pages
  /\ DOMAIN last.before \ DOMAIN pages = {6, 7, 8}
  /\ PathFrom(last.before, 8, last.key, MaxHeight, FALSE) = {7, 8}
  /\ 5 \in DOMAIN pages /\ pages[5] = last.before[5]
  /\ getPtr(pages[root], 0) = 5

====
